---- MODULE Spec2Model ----
(***************************************************************************)
(* walcord: rewriting of KEY(...) placeholder tokens in theme text         *)
(* (src/main.py).  The model covers the palette lookup, the token regular  *)
(* expression, remap_key with its two modifier tables, replace_key and the *)
(* line loop of try_replace_key_in_theme.                                  *)
(*                                                                         *)
(* Text is modelled by TLA+ strings, built with \o exactly where the code  *)
(* builds f-strings.  A Python float is modelled by an integer number of   *)
(* ten-thousandths (One stands for 1.0).  An optional regex group is a     *)
(* sequence of length 0 (None) or 1.  An exception is the exc field of a   *)
(* result record; NoExc means the call returned.                           *)
(***************************************************************************)
EXTENDS Integers, Sequences, FiniteSets, TLC

VARIABLES colors, lines, end, n, output, log, pc

vars == <<colors, lines, end, n, output, log, pc>>

(***************************************************************************)
(* Bounds of the model.                                                    *)
(***************************************************************************)
MaxLines == 2
MaxArg == 3

(***************************************************************************)
(* Representation of floats: 1.0 is One ten-thousandths.  Opacity literals *)
(* are written in hundredths (50 is the literal 0.5, 5000 the literal 50). *)
(***************************************************************************)
One == 10000

NoExc == "None"

Returned(t) == [exc |-> NoExc, text |-> t]
Raised(e) == [exc |-> e, text |-> ""]

\* str.lower() on the key and identifier texts of the model's universe.
lower(s) ==
    CASE s = "A" -> "a"
      [] s = "W" -> "w"
      [] s = "Wallpaper" -> "wallpaper"
      [] s = ".RGB" -> ".rgb"
      [] s = ".Hex" -> ".hex"
      [] s = ".ADD" -> ".add"
      [] s = ".Invert" -> ".invert"
      [] OTHER -> s

\* The text of a decimal literal given in hundredths: 50 is "0.5", 100 is "1".
LiteralText(h) ==
    IF h % 100 = 0 THEN ToString(h \div 100)
    ELSE IF h % 10 = 0 THEN ToString(h \div 100) \o "." \o ToString((h % 100) \div 10)
    ELSE IF h % 100 < 10 THEN ToString(h \div 100) \o ".0" \o ToString(h % 100)
    ELSE ToString(h \div 100) \o "." \o ToString(h % 100)

\* float(text) of a decimal literal, in ten-thousandths.
float(h) == h * 100

\* f"{x}" of a float: the integer part, a point, and the fraction without
\* trailing zeros (at least one digit), as repr() prints these values.
FloatStr(v) ==
    LET ip == v \div One
        fr == v % One
        digits == IF fr % 1000 = 0 THEN ToString(fr \div 1000)
                  ELSE IF fr % 100 = 0 THEN
                      (IF fr < 1000 THEN "0" ELSE "") \o ToString(fr \div 100)
                  ELSE IF fr % 10 = 0 THEN
                      (IF fr < 100 THEN "00" ELSE IF fr < 1000 THEN "0" ELSE "")
                          \o ToString(fr \div 10)
                  ELSE (IF fr < 10 THEN "000" ELSE IF fr < 100 THEN "00"
                        ELSE IF fr < 1000 THEN "0" ELSE "") \o ToString(fr)
    IN ToString(ip) \o "." \o digits

HexDigit(d) ==
    CASE d = 10 -> "a" [] d = 11 -> "b" [] d = 12 -> "c"
      [] d = 13 -> "d" [] d = 14 -> "e" [] d = 15 -> "f"
      [] OTHER -> ToString(d)

RECURSIVE HexDigits(_)
HexDigits(v) == IF v < 16 THEN HexDigit(v) ELSE HexDigits(v \div 16) \o HexDigit(v % 16)

\* f"{v:02x}": lowercase hex, zero-padded to width 2, the sign counted in
\* the width; wider values are printed in full.
Hex02(v) ==
    IF v < 0 THEN "-" \o HexDigits(0 - v)
    ELSE IF v < 16 THEN "0" \o HexDigit(v)
    ELSE HexDigits(v)

\* "".join(parts), from the k-th part on.
RECURSIVE JoinFrom(_, _)
JoinFrom(parts, k) == IF k > Len(parts) THEN "" ELSE parts[k] \o JoinFrom(parts, k + 1)

Join(parts) == JoinFrom(parts, 1)

(***************************************************************************)
(* The palette: the global colors as hex_to_rgb_map leaves it.  A color    *)
(* is an RGB triple; the wallpaper entries hold the path string, kept as   *)
(* its characters because remap_key indexes it.                            *)
(***************************************************************************)
Rgb(t) == [kind |-> "rgb", v |-> t]
Path(chars) == [kind |-> "path", v |-> chars]

ColorSamples == {<<10, 20, 30>>, <<0, 128, 255>>, <<255, 0, 0>>}

WallpaperPath == <<"/", "h", "o", "m", "e", "/", "p", ".", "p", "n", "g">>

PaletteKeys == {"a", "t", "w", "wallpaper"}

Palette(c) ==
    [k \in PaletteKeys |->
        IF k = "a" THEN Rgb(c)
        ELSE IF k = "t" THEN Rgb(<<250, 250, 255>>)
        ELSE Path(WallpaperPath)]

Palettes == {Palette(c) : c \in ColorSamples}

\* colors.get(key): None (the empty sequence) when the key is absent.
get(pal, key) == IF key \in DOMAIN pal THEN <<pal[key]>> ELSE <<>>

(***************************************************************************)
(* Tokens.  A token is the text                                            *)
(*     KEY(<key>[,<opacity>]) [.<id>] [.<id>] [ ( <args> ) ]               *)
(* held by its parts: key text, optional opacity literal (hundredths),     *)
(* zero to two dotted identifiers and an optional parenthesised list of    *)
(* numeric literals.  An argument literal [n, dec] is the integer n, or    *)
(* n.5 when dec.                                                           *)
(***************************************************************************)
ArgText(a) == IF a.dec THEN ToString(a.n) \o ".5" ELSE ToString(a.n)

RECURSIVE ArgsFrom(_, _)
ArgsFrom(as, k) ==
    IF k > Len(as) THEN ""
    ELSE IF k = Len(as) THEN ArgText(as[k])
    ELSE ArgText(as[k]) \o "," \o ArgsFrom(as, k + 1)

ArgsInner(as) == ArgsFrom(as, 1)

\* The text of an optional parenthesised argument list.
ParensText(args) == IF args = <<>> THEN "" ELSE "(" \o ArgsInner(args[1]) \o ")"

OpacityText(op) == IF op = <<>> THEN "" ELSE ", " \o LiteralText(op[1])

TokenText(tok) ==
    "KEY(" \o tok.key \o OpacityText(tok.op) \o ")"
        \o Join(tok.ids) \o ParensText(tok.args)

(***************************************************************************)
(* The match of the token regular expression of replace_key at a token:    *)
(* groups 1..5 and the text the match does not consume.  Group 3 takes the *)
(* first identifier, group 4 the second one; group 5 matches only a list   *)
(* of one or two literals that directly follows group 4's identifier.      *)
(***************************************************************************)
Group5Matches(tok) ==
    /\ Len(tok.ids) = 2
    /\ tok.args # <<>>
    /\ Len(tok.args[1]) \in {1, 2}

Match(tok) ==
    [g1 |-> tok.key,
     g2 |-> tok.op,
     g3 |-> IF Len(tok.ids) >= 1 THEN <<tok.ids[1]>> ELSE <<>>,
     g4 |-> IF Len(tok.ids) >= 2 THEN <<tok.ids[2]>> ELSE <<>>,
     g5 |-> IF Group5Matches(tok) THEN tok.args ELSE <<>>,
     rest |-> IF Group5Matches(tok) THEN "" ELSE ParensText(tok.args)]

RECURSIVE PointsFrom(_, _)
PointsFrom(as, k) ==
    IF k > Len(as) THEN ""
    ELSE (IF as[k].dec THEN "." ELSE "") \o PointsFrom(as, k + 1)

\* One point for every literal of the list that has a decimal part.
Points(as) == PointsFrom(as, 1)

\* second_modifer_name: group 4 lowered, with parentheses, digits, commas
\* and spaces removed; the decimal points of group 5's literals stay.
SecondModifierName(m) ==
    IF m.g4 = <<>> THEN <<>>
    ELSE <<lower(m.g4[1]) \o (IF m.g5 = <<>> THEN "" ELSE Points(m.g5[1]))>>

(***************************************************************************)
(* Color arithmetic and the HLS conversion.                                *)
(***************************************************************************)
Max2(a, b) == IF a >= b THEN a ELSE b
Min2(a, b) == IF a <= b THEN a ELSE b

\* The body of colorsys.rgb_to_hls once maxc and minc are known, on
\* channels scaled by 1/255 and in exact fractions <<numerator, denominator>>.
Hls(r, g, b, maxc, minc) ==
    IF minc = maxc THEN <<(<<0, 1>>), <<maxc + minc, 510>>, <<0, 1>>>>
    ELSE <<(<<(IF r = maxc THEN g - b
                ELSE IF g = maxc THEN 2 * (maxc - minc) + b - r
                ELSE 4 * (maxc - minc) + r - g) % (6 * (maxc - minc)),
              6 * (maxc - minc)>>),
           <<maxc + minc, 510>>,
           IF maxc + minc <= 255 THEN <<maxc - minc, maxc + minc>>
           ELSE <<maxc - minc, 510 - maxc - minc>>>>

\* The result is ordered (h, l, s).
rgb_to_hls(color) ==
    Hls(color.v[1], color.v[2], color.v[3],
        Max2(color.v[1], Max2(color.v[2], color.v[3])),
        Min2(color.v[1], Min2(color.v[2], color.v[3])))

\* An addition that stops at the ends of the channel range.
add_to_color_tuple_clamped(color, value, pos) ==
    IF pos + 1 > Len(color.v) THEN [exc |-> "IndexError", val |-> color]
    ELSE IF color.kind = "path" THEN [exc |-> "TypeError", val |-> color]
    ELSE [exc |-> NoExc,
          val |-> Rgb([color.v EXCEPT ![pos + 1] = Max2(0, Min2(255, @ + value))])]

\* color[pos] += value on the list made of the tuple.
add_to_color_tuple(color, value, pos) ==
    IF pos + 1 > Len(color.v) THEN [exc |-> "IndexError", val |-> color]
    ELSE IF color.kind = "path" THEN [exc |-> "TypeError", val |-> color]
    ELSE [exc |-> NoExc, val |-> Rgb([color.v EXCEPT ![pos + 1] = @ + value])]

invert_color(color) ==
    IF color.kind = "path" THEN [exc |-> "TypeError", val |-> color]
    ELSE [exc |-> NoExc, val |-> Rgb([i \in 1..Len(color.v) |-> 255 - color.v[i]])]

check_and_apply_second_modificator(color_tuple, scond_mod) ==
    IF scond_mod.type = "add" \/ scond_mod.type = "sub"
    THEN add_to_color_tuple(color_tuple, scond_mod.mod, scond_mod.pos)
    ELSE IF scond_mod.type = "invert" THEN invert_color(color_tuple)
    ELSE [exc |-> NoExc, val |-> color_tuple]

\* The call with one argument made by the HLS formatters: the second
\* parameter has no default, so the call raises before the body runs.
check_and_apply_second_modificator_1(color_tuple) ==
    [exc |-> "TypeError", val |-> color_tuple]

\* The default value of the scond_mod parameter of every formatter.
NoSecondModifier == [pos |-> 0, mod |-> 0, type |-> "None"]

\* f"{color_tuple[i]}": the element at index i, printed.
Elem(color, i) ==
    IF color.kind = "rgb" THEN ToString(color.v[i + 1]) ELSE color.v[i + 1]

\* A fraction printed; stands for the float the code would print.
FracStr(q) == ToString(q[1]) \o "/" \o ToString(q[2])

(***************************************************************************)
(* The f-strings of the formatters, on the color c the second modifier     *)
(* gave, and the formatters of FIRST_MODIFIERS.  A formatter whose call of *)
(* check_and_apply_second_modificator raised passes the exception on, and  *)
(* indexing past the end of the value raises IndexError.                   *)
(***************************************************************************)
FString(shape, c, opacity) ==
    CASE shape = "rgba" -> "rgba(" \o Elem(c, 0) \o "," \o Elem(c, 1) \o ","
                              \o Elem(c, 2) \o "," \o FloatStr(opacity) \o ")"
      [] shape = "rgb" -> "rgb(" \o Elem(c, 0) \o "," \o Elem(c, 1) \o ","
                              \o Elem(c, 2) \o ")"
      [] shape = "values" -> Elem(c, 0) \o "," \o Elem(c, 1) \o "," \o Elem(c, 2)
                              \o "," \o FloatStr(opacity)
      [] shape = "values_without_opacity" ->
             Elem(c, 0) \o "," \o Elem(c, 1) \o "," \o Elem(c, 2)
      [] shape = "red" -> Elem(c, 0)
      [] shape = "green" -> Elem(c, 1)
      [] shape = "blue" -> Elem(c, 2)
      [] shape = "opacity" -> FloatStr(opacity)
      [] shape = "hex" -> "#" \o Hex02(c.v[1]) \o Hex02(c.v[2]) \o Hex02(c.v[3])
      [] shape = "hex_values" -> Hex02(c.v[1]) \o Hex02(c.v[2]) \o Hex02(c.v[3])

\* The highest index the f-string of a shape reads, plus one.
Reads(shape) ==
    CASE shape = "opacity" -> 0
      [] shape = "red" -> 1
      [] shape = "green" -> 2
      [] OTHER -> 3

Formatted(shape, c, opacity) ==
    IF c.exc # NoExc THEN Raised(c.exc)
    ELSE IF Len(c.val.v) < Reads(shape) THEN Raised("IndexError")
    ELSE IF shape \in {"hex", "hex_values"} /\ c.val.kind = "path"
    THEN Raised("ValueError")
    ELSE Returned(FString(shape, c.val, opacity))

return_rgba_string(color_tuple, opacity, scond_mod) ==
    Formatted("rgba", check_and_apply_second_modificator(color_tuple, scond_mod), opacity)

return_rgb_string(color_tuple, opacity, scond_mod) ==
    Formatted("rgb", check_and_apply_second_modificator(color_tuple, scond_mod), opacity)

return_values_string(color_tuple, opacity, scond_mod) ==
    Formatted("values", check_and_apply_second_modificator(color_tuple, scond_mod),
              opacity)

return_values_without_opacity_string(color_tuple, opacity, scond_mod) ==
    Formatted("values_without_opacity",
              check_and_apply_second_modificator(color_tuple, scond_mod), opacity)

return_red_string(color_tuple, opacity, scond_mod) ==
    Formatted("red", check_and_apply_second_modificator(color_tuple, scond_mod), opacity)

return_green_string(color_tuple, opacity, scond_mod) ==
    Formatted("green", check_and_apply_second_modificator(color_tuple, scond_mod),
              opacity)

return_blue_string(color_tuple, opacity, scond_mod) ==
    Formatted("blue", check_and_apply_second_modificator(color_tuple, scond_mod), opacity)

return_opacity_string(color_tuple, opacity, scond_mod) ==
    Formatted("opacity", check_and_apply_second_modificator(color_tuple, scond_mod),
              opacity)

return_hex_string(color_tuple, opacity, scond_mod) ==
    Formatted("hex", check_and_apply_second_modificator(color_tuple, scond_mod), opacity)

return_hex_values_string(color_tuple, opacity, scond_mod) ==
    Formatted("hex_values", check_and_apply_second_modificator(color_tuple, scond_mod),
              opacity)

\* The f-strings of the five HLS formatters on the converted tuple.
HlsFString(shape, hls) ==
    CASE shape = "hsl" -> "hsl(" \o FracStr(hls[1]) \o "," \o FracStr(hls[2]) \o ","
                              \o FracStr(hls[3]) \o ")"
      [] shape = "h" -> FracStr(hls[1])
      [] shape = "s" -> FracStr(hls[3])
      [] shape = "l" -> FracStr(hls[2])
      [] shape = "hsl_values" -> FracStr(hls[1]) \o "," \o FracStr(hls[2]) \o ","
                              \o FracStr(hls[3])

HlsUnpacked(shape, c) ==
    IF c.exc # NoExc THEN Raised(c.exc) ELSE Returned(HlsFString(shape, c.val))

\* The HLS formatters convert first and then make the one-argument call;
\* a path value already fails in the conversion.
HlsFormatted(shape, color_tuple) ==
    IF color_tuple.kind = "path" THEN Raised("ValueError")
    ELSE HlsUnpacked(shape, check_and_apply_second_modificator_1(rgb_to_hls(color_tuple)))

return_hsl_string(color_tuple, opacity, scond_mod) == HlsFormatted("hsl", color_tuple)

return_h_from_hsl_string(color_tuple, opacity, scond_mod) == HlsFormatted("h", color_tuple)

return_s_from_hsl_string(color_tuple, opacity, scond_mod) == HlsFormatted("s", color_tuple)

return_l_from_hsl_string(color_tuple, opacity, scond_mod) == HlsFormatted("l", color_tuple)

return_hsl_values_string(color_tuple, opacity, scond_mod) ==
    HlsFormatted("hsl_values", color_tuple)

FirstModifierNames ==
    {".rgba", ".rgb", ".hex", ".hsl", ".rgba_values", ".rgb_values", ".hex_values",
     ".hsl_values", ".r", ".red", ".g", ".green", ".b", ".blue", ".o", ".opacity",
     ".h", ".hue", ".s", ".saturation", ".l", ".lightness"}

\* FIRST_MODIFIERS[name](color, opacity, scond_mod); DEFAULT is the rgba formatter.
FIRST_MODIFIERS(name, c, o, sm) ==
    CASE name \in {"DEFAULT", ".rgba"} -> return_rgba_string(c, o, sm)
      [] name = ".rgb" -> return_rgb_string(c, o, sm)
      [] name = ".hex" -> return_hex_string(c, o, sm)
      [] name = ".hsl" -> return_hsl_string(c, o, sm)
      [] name = ".rgba_values" -> return_values_string(c, o, sm)
      [] name = ".rgb_values" -> return_values_without_opacity_string(c, o, sm)
      [] name = ".hex_values" -> return_hex_values_string(c, o, sm)
      [] name = ".hsl_values" -> return_hsl_values_string(c, o, sm)
      [] name \in {".r", ".red"} -> return_red_string(c, o, sm)
      [] name \in {".g", ".green"} -> return_green_string(c, o, sm)
      [] name \in {".b", ".blue"} -> return_blue_string(c, o, sm)
      [] name \in {".o", ".opacity"} -> return_opacity_string(c, o, sm)
      [] name \in {".h", ".hue"} -> return_h_from_hsl_string(c, o, sm)
      [] name \in {".s", ".saturation"} -> return_s_from_hsl_string(c, o, sm)
      [] name \in {".l", ".lightness"} -> return_l_from_hsl_string(c, o, sm)

(***************************************************************************)
(* The handlers of SECOND_MODIFIERS.  params is group 5: None, or the      *)
(* literals that splitting the stripped text at the commas gives.          *)
(***************************************************************************)
\* int(text): a literal with a decimal point is no integer.
IntFails(p) == \E i \in 1..Len(p) : p[i].dec

add_modificator(params) ==
    IF params = <<>> THEN [exc |-> "AttributeError", val |-> NoSecondModifier]
    ELSE IF Len(params[1]) < 2 \/ Len(params[1]) > 2
    THEN [exc |-> "ValueError: takes 2 parameters", val |-> NoSecondModifier]
    ELSE IF IntFails(params[1]) THEN [exc |-> "ValueError: int", val |-> NoSecondModifier]
    ELSE [exc |-> NoExc,
          val |-> [pos |-> params[1][1].n, mod |-> params[1][2].n, type |-> "add"]]

sub_modificator(params) ==
    IF params = <<>> THEN [exc |-> "AttributeError", val |-> NoSecondModifier]
    ELSE IF Len(params[1]) < 2 \/ Len(params[1]) > 2
    THEN [exc |-> "ValueError: takes 2 parameters", val |-> NoSecondModifier]
    ELSE IF IntFails(params[1]) THEN [exc |-> "ValueError: int", val |-> NoSecondModifier]
    ELSE [exc |-> NoExc,
          val |-> [pos |-> params[1][1].n, mod |-> (0 - 1) * params[1][2].n, type |-> "sub"]]

invert_modificator(params) ==
    IF params # <<>>
    THEN [exc |-> "ValueError: takes no parameters", val |-> NoSecondModifier]
    ELSE [exc |-> NoExc, val |-> [pos |-> 0, mod |-> 0, type |-> "invert"]]

SecondModifierNames == {".add", ".sub", ".invert", ".a", ".s", ".i"}

SECOND_MODIFIERS(name, params) ==
    CASE name \in {".add", ".a"} -> add_modificator(params)
      [] name \in {".sub", ".s"} -> sub_modificator(params)
      [] name \in {".invert", ".i"} -> invert_modificator(params)

(***************************************************************************)
(* remap_key: the replacement of one match.  The result carries the        *)
(* exception or the returned text, and the local opacity as it stands when *)
(* the call ends (<<>> while unassigned).                                  *)
(***************************************************************************)
\* The opacity block without the test for values above 100.
Opacity_unbounded(second_arg) ==
    IF second_arg < 0 THEN [exc |-> "ValueError: opacity", opacity |-> One]
    ELSE IF second_arg > One THEN [exc |-> NoExc, opacity |-> second_arg \div 100]
    ELSE [exc |-> NoExc, opacity |-> second_arg]

\* The opacity block taking 1.0 itself for a percentage.
Opacity_percent_from_one(second_arg) ==
    IF second_arg < 0 THEN [exc |-> "ValueError: opacity", opacity |-> One]
    ELSE IF second_arg >= One /\ second_arg <= 100 * One
    THEN [exc |-> NoExc, opacity |-> second_arg \div 100]
    ELSE IF second_arg > 100 * One THEN [exc |-> "ValueError: opacity", opacity |-> One]
    ELSE [exc |-> NoExc, opacity |-> second_arg]

\* Lines 350-364 on the float second_arg: the percentage form is divided
\* by 100; a value outside the range sets opacity to 1.0 and raises.
Opacity(second_arg) ==
    IF second_arg < 0 THEN [exc |-> "ValueError: opacity", opacity |-> One]
    ELSE IF second_arg > One /\ second_arg <= 100 * One
    THEN [exc |-> NoExc, opacity |-> second_arg \div 100]
    ELSE IF second_arg > 100 * One THEN [exc |-> "ValueError: opacity", opacity |-> One]
    ELSE [exc |-> NoExc, opacity |-> second_arg]

\* Lines 380-381: the handler runs when group 4 is there and its stripped
\* name (an optional value) is in the table; otherwise the default
\* parameters stay.
SecondModifierParams(name, raw_params) ==
    IF name # <<>> /\ name[1] \in SecondModifierNames
    THEN SECOND_MODIFIERS(name[1], raw_params)
    ELSE [exc |-> NoExc, val |-> NoSecondModifier]

\* Line 383: the wallpaper key with an opacity other than 1.0 or with a
\* first modifier.
WallpaperConflict(first_arg, opacity, first_modifier) ==
    /\ first_arg = "wallpaper" \/ first_arg = "w"
    /\ opacity # One \/ first_modifier # <<>>

\* Lines 385-387: the formatter of a known first modifier gets the second
\* modifier's parameters; the default formatter is called without them.
Format(first_modifier, first_arg_values, opacity, second_modifer_params) ==
    FIRST_MODIFIERS(
        IF first_modifier # <<>> /\ first_modifier[1] \in FirstModifierNames
        THEN first_modifier[1] ELSE "DEFAULT",
        first_arg_values, opacity,
        IF first_modifier # <<>> /\ first_modifier[1] \in FirstModifierNames
        THEN second_modifer_params ELSE NoSecondModifier)

WithOpacity(r, opacity) == [exc |-> r.exc, text |-> r.text, opacity |-> opacity]

\* The body of remap_key on its locals: the key lowered, the palette entry,
\* the outcome o of the opacity block, the first modifier lowered and the
\* outcome of the second modifier's handler.  The tests run in the order
\* of the code, so a later outcome is looked at only when the earlier
\* ones did not raise.
Remap(first_arg, first_arg_values, o, first_modifier, params) ==
    IF first_arg_values = <<>> \/ Len(first_arg_values[1].v) = 0
    THEN WithOpacity(Raised("ValueError: color not found"), <<>>)
    ELSE IF o.exc # NoExc THEN WithOpacity(Raised(o.exc), <<o.opacity>>)
    ELSE IF params.exc # NoExc THEN WithOpacity(Raised(params.exc), <<o.opacity>>)
    ELSE IF WallpaperConflict(first_arg, o.opacity, first_modifier)
    THEN WithOpacity(Raised("ValueError: wallpaper"), <<o.opacity>>)
    ELSE WithOpacity(Format(first_modifier, first_arg_values[1], o.opacity, params.val),
                     <<o.opacity>>)

remap_key(pal, m) ==
    Remap(lower(m.g1),
          get(pal, lower(m.g1)),
          Opacity(IF m.g2 # <<>> THEN float(m.g2[1]) ELSE One),
          IF m.g3 # <<>> THEN <<lower(m.g3[1])>> ELSE <<>>,
          SecondModifierParams(SecondModifierName(m), m.g5))

(***************************************************************************)
(* Lines.  A line is a sequence of segments: plain text, a token, or text  *)
(* in which the search pattern KEY\([^)]*\) of the line loop finds a match *)
(* and the token expression finds none ("miss", as KEY(a,-5)).             *)
(***************************************************************************)
NoToken == [key |-> "", op |-> <<>>, ids |-> <<>>, args |-> <<>>]

T(s) == [t |-> "text", s |-> s, tok |-> NoToken]
Miss(s) == [t |-> "miss", s |-> s, tok |-> NoToken]
Tok(tok) == [t |-> "tok", s |-> "", tok |-> tok]

SegText(seg) == IF seg.t = "tok" THEN TokenText(seg.tok) ELSE seg.s

RECURSIVE LineTextFrom(_, _)
LineTextFrom(line, k) ==
    IF k > Len(line) THEN "" ELSE SegText(line[k]) \o LineTextFrom(line, k + 1)

LineText(line) == LineTextFrom(line, 1)

\* re.search(r'KEY\([^)]*\)', i, re.IGNORECASE)
HasKeySyntax(line) == \E k \in 1..Len(line) : line[k].t \in {"tok", "miss"}

\* re.sub with remap_key: the matches are replaced from left to right, the
\* text between them is kept, and the first exception ends the call.
\* The text for a segment and what follows it: r is the replacement of
\* the segment's match, rest the text the match left, after the outcome
\* of the remainder of the line.
Spliced(r, rest, after) ==
    IF r.exc # NoExc THEN Raised(r.exc)
    ELSE IF after.exc # NoExc THEN Raised(after.exc)
    ELSE Returned(r.text \o rest \o after.text)

RECURSIVE replace_key_from(_, _, _)
replace_key_from(pal, line, k) ==
    IF k > Len(line) THEN Returned("")
    ELSE IF line[k].t # "tok"
    THEN Spliced(Returned(line[k].s), "", replace_key_from(pal, line, k + 1))
    ELSE Spliced(remap_key(pal, Match(line[k].tok)), Match(line[k].tok).rest,
                 replace_key_from(pal, line, k + 1))

replace_key(pal, line) == replace_key_from(pal, line, 1)

(***************************************************************************)
(* The inputs of the model.                                                *)
(***************************************************************************)
KeyTexts == {"a", "A", "w", "wallpaper", "q"}

\* Literals 0, 0.5, 1, 1.5, 50, 100 and 150, in hundredths.
OpacityLiterals == {0, 50, 100, 150, 5000, 10000, 15000}

Opacities == {<<>>} \cup {<<h>> : h \in OpacityLiterals}

FirstIds == FirstModifierNames \cup {".foo", ".RGB"}

FirstIdsBeforeSecond == {".rgb", ".RGB", ".rgba", ".hex", ".hsl", ".foo"}

SecondIds == SecondModifierNames \cup {".bar", ".ADD"}

ArgLiterals == {[n |-> k, dec |-> FALSE] : k \in 0..MaxArg} \cup {[n |-> 1, dec |-> TRUE]}

\* No list, the empty list, and lists of one, two and three literals.
ArgLists ==
    {<<>>, <<(<<>>)>>}
        \cup {<<(<<x>>)>> : x \in ArgLiterals}
        \cup {<<(<<x, y>>)>> : x \in ArgLiterals, y \in ArgLiterals}
        \cup {<<(<<x, x, x>>)>> : x \in ArgLiterals}

Tokens ==
    [key : KeyTexts, op : Opacities, ids : {<<>>} \cup {<<f>> : f \in FirstIds},
     args : {<<>>}]
        \cup [key : KeyTexts, op : {<<>>, <<5000>>},
              ids : {<<f, g>> : f \in FirstIdsBeforeSecond, g \in SecondIds},
              args : ArgLists]
        \cup [key : {"a"}, op : {<<>>}, ids : {<<g>> : g \in SecondIds},
              args : ArgLists \ {<<>>}]

Token(key, op, ids, args) == [key |-> key, op |-> op, ids |-> ids, args |-> args]

\* A line holding one token between two pieces of text.
Before == "  --c: "
After == ";"

TokenLine(tok) == <<T(Before), Tok(tok), T(After)>>

DocLines ==
    {<<T("  color: red;")>>,
     <<T("}")>>,
     <<Miss("  --m: KEY(a,-5);")>>,
     TokenLine(Token("a", <<>>, <<".rgb">>, <<>>)),
     TokenLine(Token("t", <<5000>>, <<>>, <<>>)),
     TokenLine(Token("A", <<>>, <<".hex", ".add">>, <<(<<[n |-> 0, dec |-> FALSE],
                                                       [n |-> 1, dec |-> FALSE]>>)>>)),
     TokenLine(Token("q", <<>>, <<".rgb">>, <<>>)),
     TokenLine(Token("a", <<15000>>, <<>>, <<>>)),
     TokenLine(Token("w", <<>>, <<".rgb">>, <<>>)),
     TokenLine(Token("a", <<>>, <<".rgb", ".add">>, <<(<<[n |-> 1, dec |-> FALSE]>>)>>)),
     <<T("a: "), Tok(Token("a", <<>>, <<".rgb">>, <<>>)), T(" b: "),
       Tok(Token("q", <<>>, <<>>, <<>>)), T(";")>>,
     <<T("a: "), Tok(Token("a", <<>>, <<".r">>, <<>>)), T(" b: "),
       Tok(Token("t", <<>>, <<".hex_values">>, <<>>)), T(";")>>}

RECURSIVE SeqsUpTo(_, _)
SeqsUpTo(S, k) ==
    IF k = 0 THEN {<<>>}
    ELSE LET shorter == SeqsUpTo(S, k - 1)
         IN shorter \cup {Append(d, x) : d \in {e \in shorter : Len(e) = k - 1}, x \in S}

Docs == SeqsUpTo(DocLines, MaxLines)

\* The filename argument of try_replace_key_in_theme.
FileName == "theme.css"

(***************************************************************************)
(* try_replace_key_in_theme: one action per way through the loop body.     *)
(***************************************************************************)
Error(k, e) == [level |-> "error", line |-> k, file |-> FileName, exc |-> e]
Warning(k) == [level |-> "warning", line |-> k, file |-> FileName, exc |-> "KEY parse error"]

\* A handler that ends the loop: no line after a failing one is processed.
AfterException_abort(k, total) == total

\* Lines 461-462: the handler logs and ends; the loop goes on to the next
\* line (total is the number of lines).
AfterException(k, total) == k + 1

TypeOK ==
    /\ colors \in Palettes
    /\ n \in 0..Len(lines)
    /\ pc \in {"loop", "done"}
    /\ end \in {"", "\n"}

Init ==
    /\ colors \in Palettes
    /\ lines \in Docs
    /\ end \in {"", "\n"}
    /\ n = 0
    /\ output = ""
    /\ log = <<>>
    /\ pc = "loop"

\* Line 464: a line without token syntax is copied.
PassThrough ==
    /\ pc = "loop"
    /\ n < Len(lines)
    /\ ~HasKeySyntax(lines[n + 1])
    /\ output' = output \o LineText(lines[n + 1]) \o end
    /\ n' = n + 1
    /\ UNCHANGED <<colors, lines, end, log, pc>>

\* Lines 457-460 when replace_key returned r for the line with text i:
\* an unchanged line is warned about, and the new line is appended.
Succeeded(r, i) ==
    /\ r.exc = NoExc
    /\ log' = IF r.text \o end = i \o end THEN Append(log, Warning(n + 1)) ELSE log
    /\ output' = output \o r.text \o end

Rewritten ==
    /\ pc = "loop"
    /\ n < Len(lines)
    /\ HasKeySyntax(lines[n + 1])
    /\ Succeeded(replace_key(colors, lines[n + 1]), LineText(lines[n + 1]))
    /\ n' = n + 1
    /\ UNCHANGED <<colors, lines, end, pc>>

\* Lines 461-462 when replace_key raised: the error is logged.
Excepted(r) ==
    /\ r.exc # NoExc
    /\ log' = Append(log, Error(n + 1, r.exc))

Failed ==
    /\ pc = "loop"
    /\ n < Len(lines)
    /\ HasKeySyntax(lines[n + 1])
    /\ Excepted(replace_key(colors, lines[n + 1]))
    /\ n' = AfterException(n, Len(lines))
    /\ UNCHANGED <<colors, lines, end, output, pc>>

\* Line 466: return output.
Return ==
    /\ pc = "loop"
    /\ n = Len(lines)
    /\ pc' = "done"
    /\ UNCHANGED <<colors, lines, end, n, output, log>>

Next == PassThrough \/ Rewritten \/ Failed \/ Return

Spec == Init /\ [][Next]_vars

\* The rewriter run on every one-token line of the token universe, the
\* line followed by a line of plain text.
InitToken ==
    /\ colors \in Palettes
    /\ lines \in {<<TokenLine(tok), <<T("}")>>>> : tok \in Tokens}
    /\ end = "\n"
    /\ n = 0
    /\ output = ""
    /\ log = <<>>
    /\ pc = "loop"

SpecToken == InitToken /\ [][Next]_vars

(***************************************************************************)
(* Properties.  Under SpecToken line 1 is Before, one token, After; the    *)
(* state with n = 1 is the one right after that line was processed.        *)
(***************************************************************************)
TheToken == lines[1][2].tok

HasError(k) == \E j \in 1..Len(log) : log[j].level = "error" /\ log[j].line = k

HasErrorOf(k, e) ==
    \E j \in 1..Len(log) : log[j].level = "error" /\ log[j].line = k /\ log[j].exc = e

ResolutionFails(line) == HasKeySyntax(line) /\ replace_key(colors, line).exc # NoExc

\* The token's key names a color of the palette.
KnownColor(tok) ==
    /\ get(colors, lower(tok.key)) # <<>>
    /\ get(colors, lower(tok.key))[1].kind = "rgb"

TheColor == colors[lower(TheToken.key)].v

\* The opacity literal is absent or at most 100.
OpacityInRange(tok) == tok.op = <<>> \/ tok.op[1] <= 10000

ArgCount(tok) == IF tok.args = <<>> THEN 0 ELSE Len(tok.args[1])

IntegerArgs(tok) == \A j \in 1..ArgCount(tok) : ~tok.args[1][j].dec

RgbText(t) == "rgb(" \o ToString(t[1]) \o "," \o ToString(t[2]) \o "," \o ToString(t[3]) \o ")"

\* What line 1 gives when its token is replaced by text.
LineWith(text) == Before \o text \o After \o end

\* The text that the line loop emits for a line, from the line and the
\* palette alone.
Emitted(line) ==
    IF ~HasKeySyntax(line) THEN LineText(line) \o end
    ELSE IF replace_key(colors, line).exc = NoExc
    THEN replace_key(colors, line).text \o end
    ELSE ""

RECURSIVE EmittedUpTo(_)
EmittedUpTo(k) == IF k = 0 THEN "" ELSE EmittedUpTo(k - 1) \o Emitted(lines[k])

\* The text claimed for a line: a line whose resolution fails is kept as
\* it was written.
Claimed(line) == IF ResolutionFails(line) THEN LineText(line) \o end ELSE Emitted(line)

RECURSIVE ClaimedUpTo(_)
ClaimedUpTo(k) == IF k = 0 THEN "" ELSE ClaimedUpTo(k - 1) \o Claimed(lines[k])

\* C1: when the rewriter returns, every line whose resolution failed has an
\* error recorded under its line number and stands in the returned text, as
\* it was written, at its position.
C1_FailedLinePreserved ==
    pc = "done" =>
        /\ \A k \in 1..Len(lines) : ResolutionFails(lines[k]) => HasError(k)
        /\ output = ClaimedUpTo(Len(lines))

\* C2: the text returned is the concatenation, in line order, of what each
\* line emits by itself given the palette, whatever the other lines do, and
\* the rewriter returns only after the last line.
C2_LinesIndependent ==
    /\ output = EmittedUpTo(n)
    /\ pc = "done" => n = Len(lines)
    /\ \A j \in 1..Len(log) : log[j].line <= n
    /\ \A j \in 1..Len(log) : \A k \in 1..Len(log) : j < k => log[j].line < log[k].line

C2_Witness ==
    /\ pc = "done"
    /\ Len(lines) >= 2
    /\ ResolutionFails(lines[1])
    /\ HasKeySyntax(lines[2]) /\ ~ResolutionFails(lines[2])
    /\ output # ""

NormalizedOpacity(op) ==
    IF op = <<>> THEN One
    ELSE IF op[1] <= 100 THEN op[1] * 100
    ELSE op[1]

\* C4: for a token with a known color key and an opacity literal v in
\* [0, 100], the opacity is v/100 when 1 < v <= 100, v when 0 <= v <= 1, and
\* 1.0 without a literal; it lies in [0.0, 1.0], and it is the opacity that
\* the rgba, rgba_values and opacity shapes print.
C4_OpacityNormalized ==
    (n = 1 /\ KnownColor(TheToken) /\ OpacityInRange(TheToken)) =>
        /\ remap_key(colors, Match(TheToken)).opacity = <<NormalizedOpacity(TheToken.op)>>
        /\ NormalizedOpacity(TheToken.op) \in 0..One
        /\ ~HasErrorOf(1, "ValueError: opacity")
        /\ TheToken.ids \in {<<".o">>, <<".opacity">>} =>
               output = LineWith(FloatStr(NormalizedOpacity(TheToken.op)))
        /\ TheToken.ids \in {<<>>, <<".rgba">>, <<".foo">>} =>
               output = LineWith("rgba(" \o ToString(TheColor[1]) \o ","
                                   \o ToString(TheColor[2]) \o "," \o ToString(TheColor[3])
                                   \o "," \o FloatStr(NormalizedOpacity(TheToken.op)) \o ")")
        /\ TheToken.ids = <<".rgba_values">> =>
               output = LineWith(ToString(TheColor[1]) \o "," \o ToString(TheColor[2])
                                   \o "," \o ToString(TheColor[3]) \o ","
                                   \o FloatStr(NormalizedOpacity(TheToken.op)))

C4_Witness ==
    /\ n = 1
    /\ TheToken = Token("A", <<5000>>, <<".rgba">>, <<>>)
    /\ TheColor = <<0, 128, 255>>
    /\ output = LineWith("rgba(0,128,255,0.5)")

\* C5: a token whose key is wallpaper or w, in any letter case, and that
\* carries an opacity literal or a modifier has a failure recorded for its
\* line and is not rewritten.  (The kind of the failure is left open here:
\* the claim names the wallpaper conflict.)
C5_WallpaperRejectsOpacityAndModifiers ==
    (n = 1 /\ lower(TheToken.key) \in {"wallpaper", "w"}
           /\ (TheToken.op # <<>> \/ TheToken.ids # <<>>)) =>
        /\ HasError(1)
        /\ output = ""

HslFamily ==
    {".hsl", ".hsl_values", ".h", ".hue", ".s", ".saturation", ".l", ".lightness"}

HslShape(fm) ==
    CASE fm \in {".h", ".hue"} -> "h"
      [] fm \in {".s", ".saturation"} -> "s"
      [] fm \in {".l", ".lightness"} -> "l"
      [] fm = ".hsl_values" -> "hsl_values"
      [] OTHER -> "hsl"

\* A second modifier that the handlers accept: add or sub with a channel
\* index in 0..2 and an integer delta, or invert without a list.
WellFormedSecond(tok) ==
    /\ Len(tok.ids) = 2
    /\ \/ /\ lower(tok.ids[2]) \in {".add", ".a", ".sub", ".s"}
          /\ ArgCount(tok) = 2
          /\ IntegerArgs(tok)
          /\ tok.args[1][1].n <= 2
       \/ /\ lower(tok.ids[2]) \in {".invert", ".i"}
          /\ tok.args = <<>>

\* C6: a token with a known color key and a first modifier of the HSL
\* family, with or without a second modifier, resolves, and without a second
\* modifier its text is built from the converter's (h, l, s) of the color.
C6_HslResolves ==
    (n = 1 /\ KnownColor(TheToken) /\ OpacityInRange(TheToken)
           /\ Len(TheToken.ids) >= 1 /\ lower(TheToken.ids[1]) \in HslFamily
           /\ (Len(TheToken.ids) = 2 => WellFormedSecond(TheToken))
           /\ (Len(TheToken.ids) = 1 => TheToken.args = <<>>)) =>
        /\ log = <<>>
        /\ Len(TheToken.ids) = 1 =>
               output = LineWith(HlsFString(HslShape(lower(TheToken.ids[1])),
                                            rgb_to_hls(Rgb(TheColor))))

\* The color after the second modifier of a well-formed token, by the
\* rule of the claim.
Transformed(tok, c) ==
    IF lower(tok.ids[2]) \in {".add", ".a"}
    THEN [c EXCEPT ![tok.args[1][1].n + 1] = @ + tok.args[1][2].n]
    ELSE IF lower(tok.ids[2]) \in {".sub", ".s"}
    THEN [c EXCEPT ![tok.args[1][1].n + 1] = @ - tok.args[1][2].n]
    ELSE <<255 - c[1], 255 - c[2], 255 - c[3]>>

\* C7: with first modifier rgb, add(pos, d) gives rgb(...) of the color with
\* channel pos raised by d and the others unchanged, sub(pos, d) lowers
\* channel pos by d, and invert replaces every channel c by 255 - c.
C7_SecondModifierArithmetic ==
    (n = 1 /\ KnownColor(TheToken) /\ OpacityInRange(TheToken)
           /\ WellFormedSecond(TheToken) /\ lower(TheToken.ids[1]) = ".rgb") =>
        /\ log = <<>>
        /\ output = LineWith(RgbText(Transformed(TheToken, TheColor)))

C7_Witness ==
    /\ n = 1
    /\ TheToken = Token("a", <<>>, <<".rgb", ".add">>,
                        <<(<<[n |-> 0, dec |-> FALSE], [n |-> 1, dec |-> FALSE]>>)>>)
    /\ TheColor = <<255, 0, 0>>
    /\ output = LineWith("rgb(256,0,0)")

\* C8: a token with a known key whose second modifier is add or sub with
\* other than two arguments or with a channel index outside 0..2, or is
\* invert with one or more arguments, has a failure recorded for its line
\* and no rewritten text is emitted for it.  (Stated for arguments that are
\* integer literals and a first modifier of the table.)
C8_MalformedSecondModifierFails ==
    (n = 1 /\ KnownColor(TheToken) /\ Len(TheToken.ids) = 2
           /\ IntegerArgs(TheToken)
           /\ lower(TheToken.ids[1]) \in FirstModifierNames
           /\ \/ /\ lower(TheToken.ids[2]) \in {".add", ".a", ".sub", ".s"}
                 /\ \/ ArgCount(TheToken) # 2
                    \/ TheToken.args[1][1].n > 2
              \/ /\ lower(TheToken.ids[2]) \in {".invert", ".i"}
                 /\ ArgCount(TheToken) >= 1) =>
        /\ HasError(1)
        /\ output = ""

\* C9: a token that resolves and carries an accepted second modifier is
\* formatted from the transformed color: by the first modifier's shape
\* when that is a known one, by the default rgba shape otherwise.
C9_SecondModifierAlwaysApplied ==
    (n = 1 /\ KnownColor(TheToken) /\ WellFormedSecond(TheToken) /\ log = <<>>) =>
        output = LineWith(
            FIRST_MODIFIERS(
                IF lower(TheToken.ids[1]) \in FirstModifierNames
                THEN lower(TheToken.ids[1]) ELSE "DEFAULT",
                Rgb(Transformed(TheToken, TheColor)),
                NormalizedOpacity(TheToken.op),
                NoSecondModifier).text)

\* C10: a token with first modifier hex that resolves, whatever its second
\* modifier, gives '#' and six hexadecimal digits: seven characters, every
\* formatted channel lying in 0..255.
C10_HexHasSixDigits ==
    (n = 1 /\ KnownColor(TheToken) /\ log = <<>>
           /\ Len(TheToken.ids) >= 1 /\ lower(TheToken.ids[1]) = ".hex"
           /\ (Len(TheToken.ids) = 2 => WellFormedSecond(TheToken))
           /\ (Len(TheToken.ids) = 1 => TheToken.args = <<>>)) =>
        /\ Len(output) = Len(LineWith("#000000"))
        /\ Len(TheToken.ids) = 2 =>
               \A j \in 1..3 : Transformed(TheToken, TheColor)[j] \in 0..255

\* C11: when the token of a line resolves (nothing is recorded for the
\* line), the whole text of the token, from KEY( to the end of the second
\* modifier's parenthesised list, an empty list included, is replaced by the
\* resolved string: the emitted line is the text before the token, the
\* resolved string, and the text after the token, with no fragment of the
\* token in between.  (Stated for tokens with a first modifier of the table
\* and a second modifier that is add or sub with a channel index and a
\* delta, or invert with no list or with the empty list.)
C11_WholeTokenReplaced ==
    (n = 1 /\ log = <<>> /\ KnownColor(TheToken)
           /\ Len(TheToken.ids) = 2
           /\ lower(TheToken.ids[1]) \in FirstModifierNames
           /\ \/ WellFormedSecond(TheToken)
              \/ /\ lower(TheToken.ids[2]) \in {".invert", ".i"}
                 /\ TheToken.args = <<(<<>>)>>) =>
        output = LineWith(remap_key(colors, Match(TheToken)).text)

\* The stored wallpaper entry as the string it was read from.
WallpaperText == Join(WallpaperPath)

\* C12: a token KEY(wallpaper) or KEY(w), in any letter case, without
\* opacity and without modifier resolves without failure and is replaced
\* by exactly the stored wallpaper path string.
C12_WallpaperResolvesToPath ==
    (n = 1 /\ lower(TheToken.key) \in {"wallpaper", "w"}
           /\ TheToken.op = <<>> /\ TheToken.ids = <<>> /\ TheToken.args = <<>>) =>
        /\ log = <<>>
        /\ output = LineWith(WallpaperText)

====
